---- MODULE Spec2Model ----
(***************************************************************************)
(* commitCron: the coordinator (cmd/main.go, func main), the recursive     *)
(* repository walk GetRepoContents that main starts as a goroutine, and    *)
(* the file mutator (cmd/update.go).                                       *)
(*                                                                         *)
(* Goroutines are interleaved one channel operation (or one network call)  *)
(* at a time; purely local computation is folded into the step before it.  *)
(***************************************************************************)
EXTENDS Integers, Sequences, FiniteSets, TLC

-----------------------------------------------------------------------------
(* Bounds of the model *)

\* largest NUMBER_CONTRIBUTIONS explored
MaxN == 2
\* largest number of GetRepoContents frames on the call stack
MaxDepth == 4
\* counts 0..MaxCount (and 50) are delivered by the counter
MaxCount == 1
\* instants the clock can return while file names are generated
MaxTime == 2
\* longest event list the platform returns
MaxEvents == 2
\* last instant of the counter's time line
MaxTick == 3
\* instants per local calendar day
TicksPerDay == 2
\* NUMBER_CONTRIBUTIONS is set to the text of an integer of -MaxConfigured..MaxConfigured
MaxConfigured == 30
\* content identifiers the platform can hand out
MaxShas == 3
\* writes the platform accepts on the uploaded file
MaxWrites == 3

(* Program constants *)

\* make(chan []RepoContent, 2)
OutputCap == 2
\* make(chan struct{}, 1)
TerminateCap == 1
\* make(chan error, 1)
ErrorCap == 1
\* minContributions = -1 when MIN_CONTRIBUTIONS is not set
NoMinimum == -1

-----------------------------------------------------------------------------
(* Strings are sequences of one-character strings where the code looks     *)
(* inside them (strings.HasSuffix).                                        *)

HasSuffix(s, suffix) ==
    /\ Len(s) >= Len(suffix)
    /\ SubSeq(s, Len(s) - Len(suffix) + 1, Len(s)) = suffix

acceptedSuffixes ==
    << <<".", "j", "s">>, <<".", "j", "a", "v", "a">>, <<".", "g", "o">>,
       <<".", "c">>, <<".", "c", "p", "p">>, <<".", "t", "x", "t">> >>

\* a filter that lets every name through
fileCanBeModified_Any(fileName) == TRUE

fileCanBeModified(fileName) ==
    \E i \in 1..Len(acceptedSuffixes) : HasSuffix(fileName, acceptedSuffixes[i])

-----------------------------------------------------------------------------
(* The repository the platform serves: for every listing URL the entries   *)
(* of the directory (RepoContent values, Links.Self as Self).              *)

RootURL == "root"

File(dir, name) ==
    [Name |-> name, Path |-> dir \o name, SHA |-> "sha0", Type |-> "file", Self |-> "blob"]
Dir(name, self) ==
    [Name |-> name, Path |-> name, SHA |-> "sha0", Type |-> "dir", Self |-> self]
Symlink(dir, name) ==
    [Name |-> name, Path |-> dir \o name, SHA |-> "sha0", Type |-> "symlink", Self |-> "blob"]

in_d1 == <<"d", "1", "/">>
in_d2 == <<"d", "2", "/">>

a_go  == File(<< >>, <<"a", ".", "g", "o">>)
b_txt == File(<< >>, <<"b", ".", "t", "x", "t">>)
c_c   == File(<< >>, <<"c", ".", "c">>)
readme == File(<< >>, <<"R", ".", "m", "d">>)
gomod == File(<< >>, <<"g", "o", ".", "m", "o", "d">>)
d1_b_js == File(in_d1, <<"b", ".", "j", "s">>)
d1_a_go == File(in_d1, <<"a", ".", "g", "o">>)
d1_readme == File(in_d1, <<"R", ".", "m", "d">>)
d2_c_cpp == File(in_d2, <<"c", ".", "c", "p", "p">>)
d2_b_java == File(in_d2, <<"b", ".", "j", "a", "v", "a">>)
l_go == Symlink(<< >>, <<"l", ".", "g", "o">>)
x_go_dir == Dir(<<"x", ".", "g", "o">>, "d1")
dir1 == Dir(<<"d", "1">>, "d1")
dir2 == Dir(<<"d", "2">>, "d2")
dirRoot == Dir(<<"u", "p">>, "root")
\* a file an earlier run created: its name is the one generated at instant 0
stamped_go == File(<< >>, <<"h", "x", "m", ",", "0", ".", "g", "o">>)

URLs == {"root", "d1", "d2"}

Listing(r, x, y) == [u \in URLs |-> IF u = "root" THEN r ELSE IF u = "d1" THEN x ELSE y]

Trees ==
    << Listing(<< >>, << >>, << >>),
       Listing(<<a_go, readme, b_txt, c_c>>, << >>, << >>),
       Listing(<<a_go, dir1>>, <<d1_b_js, dir2>>, <<d2_c_cpp>>),
       Listing(<<dir1, dir2>>, <<d1_a_go>>, <<d2_b_java>>),
       Listing(<<gomod, l_go, x_go_dir, dir1>>, <<d1_readme>>, << >>),
       Listing(<<dir1>>, <<dir1>>, << >>),
       Listing(<<a_go, dir1>>, <<dirRoot>>, << >>),
       Listing(<<stamped_go>>, << >>, << >>) >>

-----------------------------------------------------------------------------
VARIABLES
    treeId,                      \* which repository the platform serves
    numberOfContributionsToMake, \* NUMBER_CONTRIBUTIONS
    stack,                       \* call stack of GetRepoContents, innermost last
    spc,                         \* the goroutine wrapping GetRepoContents
    getRepoOutput,               \* buffered results not yet received
    outputClosed,
    getRepoContentsErrorChan,    \* number of buffered errors
    errorClosed,
    terminateGetRepo,            \* number of buffered terminate messages
    terminateClosed,
    openBodies,                  \* responses opened and not closed
    cpc,                         \* position of main
    contributionResult,          \* the ContributionItem main received
    minEnv,                      \* MIN_CONTRIBUTIONS as main read it
    contents,                    \* the slice main hands to the mutator
    clock,                       \* last instant time.Now() returned
    uploaded,                    \* descriptors UploadFile was called for
    updateErrorChan,             \* number of buffered upload errors
    updateDonechan,              \* number of buffered done signals
    numMessagesReceived,
    exit,                        \* "running", or how the process ended
    requests,                    \* listing requests sent, in order
    sent,                        \* every result sent on getRepoOutput
    errorsSent,                  \* errors sent on getRepoContentsErrorChan
    observed,                    \* terminate messages the calls of the walk received
    cancelAt,                    \* Len(requests) when main sent the cancellation
    took,                        \* what main's select took from the scanner
    decision,                    \* the branch main took at the comparison
    nameChange                   \* the mutator went back to the label NameChange

\* GetNumberOfContributionsToday
VARIABLES
    events,                      \* the decoded body of the events request
    now,                         \* the instant time.Now() returns during the run
    repoAnswers,                 \* the platform's answer to a probe of each repository
    kpc,                         \* position of the counter
    fetchOutcome,                \* how the events request ended
    eventIdx,                    \* index of the event the loop is at
    repoMap,                     \* "absent", or the stored boolean as "true"/"false"
    probeCalls,                  \* existence requests sent, per repository
    numberOfContributionsToday,
    counterReturn                \* the pair the counter returned

\* the reading of NUMBER_CONTRIBUTIONS at the start of main
VARIABLES
    nContsEnv,     \* os.LookupEnv("NUMBER_CONTRIBUTIONS"): [present, value]
    gpc            \* "lookup", "start" (go func ... make), "started"

\* UploadFile against the file it writes on the platform
VARIABLES
    platformFile,  \* the file at the path: [exists, content, sha]
    held,          \* the descriptor the run holds: [Name, SHA]
    upc,           \* "idle", "describe", "upload"
    ureq,          \* the body of the last PUT: [message, content, sha]
    usignal,       \* what the last UploadFile call signalled: "none", "done", "error"
    ustatus,       \* status of the last response, 0 when there was none
    writes         \* writes the platform accepted

vars == << treeId, numberOfContributionsToMake, stack, spc, getRepoOutput,
           outputClosed, getRepoContentsErrorChan, errorClosed, terminateGetRepo,
           terminateClosed, openBodies, cpc, contributionResult, minEnv, contents,
           clock, uploaded, updateErrorChan, updateDonechan, numMessagesReceived,
           exit, requests, sent, errorsSent, observed, cancelAt, took, decision,
           nameChange,
           events, now, repoAnswers, kpc, fetchOutcome, eventIdx, repoMap, probeCalls,
           numberOfContributionsToday, counterReturn,
           nContsEnv, gpc,
           platformFile, held, upc, ureq, usignal, ustatus, writes >>

scannerVars == << stack, spc, openBodies, requests, sent, errorsSent, observed >>
mainVars == << cpc, contributionResult, minEnv, contents, clock, uploaded,
               updateErrorChan, updateDonechan, numMessagesReceived, cancelAt, took,
               decision, nameChange >>
inputVars == << treeId, numberOfContributionsToMake >>
counterVars == << events, now, repoAnswers, kpc, fetchOutcome, eventIdx, repoMap,
                 probeCalls, numberOfContributionsToday, counterReturn >>
configVars == << nContsEnv, gpc >>
uploadVars == << platformFile, held, upc, ureq, usignal, ustatus, writes >>

Tree == Trees[treeId]

\* the frame main's goroutine starts: GetRepoContents(repoContentsURL, make([]RepoContent, 0, n), n, ...)
Frame(url, result) ==
    [url |-> url, result |-> result, pc |-> "entry", idx |-> 0, open |-> FALSE]

(* The events request and the existence probes of the counter *)

Repos == {"r", "q"}

\* an answer to "GET /repos/<name>": how the request ends and, when a body
\* was decoded, the status and the "message" field of the body
ProbeAnswer(fail, status, message) ==
    [fail |-> fail, status |-> status, message |-> message]

RepoFound == ProbeAnswer("none", 200, "")
RepoNotFound == ProbeAnswer("none", 404, "Not Found")
RepoMoved == ProbeAnswer("none", 301, "Moved Permanently")
ProbeAnswers ==
    { RepoFound, RepoNotFound, RepoMoved,
      ProbeAnswer("newRequestErr", 0, ""),
      ProbeAnswer("doErr", 0, ""),
      ProbeAnswer("decodeErr", 502, "") }

\* Event without its created_at
EventKind(type, ref, refType, commits, repo) ==
    [Type |-> type,
     Payload |-> [Ref |-> ref, RefType |-> refType,
                  Commits |-> [i \in 1..Len(commits) |-> [Message |-> commits[i]]]],
     Repo |-> [Name |-> repo]]

EventKinds ==
    { EventKind("PushEvent", "refs/heads/master", "", <<"c1", "c2">>, "r"),
      EventKind("PushEvent", "refs/heads/master", "", <<"Update README.md", "c1">>, "r"),
      EventKind("CreateEvent", "main", "branch", << >>, "r"),
      EventKind("CreateEvent", "dev", "branch", << >>, "r"),
      EventKind("CreateEvent", "master", "branch", << >>, "q"),
      EventKind("CreateEvent", "", "repository", << >>, "q"),
      EventKind("PullRequestEvent", "", "", << >>, "q"),
      EventKind("WatchEvent", "", "", << >>, "r") }

At(kind, t) ==
    [CreatedAt |-> t, Type |-> kind.Type, Payload |-> kind.Payload, Repo |-> kind.Repo]

Events == {At(k, t) : k \in EventKinds, t \in 0..MaxTick}

\* the platform returns the events newest first
EventLists ==
    UNION { {l \in [1..n -> Events] :
                \A i \in 1..(n - 1) : l[i].CreatedAt > l[i + 1].CreatedAt} :
            n \in 0..MaxEvents }

\* the counter before its first statement
CounterStart ==
    /\ kpc = "fetch"
    /\ fetchOutcome = "none"
    /\ eventIdx = 0
    /\ repoMap = [r \in Repos |-> "absent"]
    /\ probeCalls = [r \in Repos |-> 0]
    /\ numberOfContributionsToday = 0
    /\ counterReturn = [n |-> 0, err |-> FALSE]

(* Decimal texts of the environment *)

Digits == <<"0", "1", "2", "3", "4", "5", "6", "7", "8", "9">>
DigitValue(ch) == CHOOSE d \in 0..9 : Digits[d + 1] = ch
IsDigit(ch) == \E d \in 0..9 : Digits[d + 1] = ch

RECURSIVE DigitsValue(_, _)
DigitsValue(s, acc) ==
    IF s = << >> THEN acc ELSE DigitsValue(Tail(s), 10 * acc + DigitValue(Head(s)))

\* strconv.Atoi: an optional sign and at least one decimal digit
Atoi(s) ==
    LET body == IF s # << >> /\ Head(s) \in {"+", "-"} THEN Tail(s) ELSE s
    IN IF body = << >> \/ \E i \in 1..Len(body) : ~IsDigit(body[i])
       THEN [ok |-> FALSE, n |-> 0]
       ELSE [ok |-> TRUE,
             n |-> IF Head(s) = "-" THEN 0 - DigitsValue(body, 0) ELSE DigitsValue(body, 0)]

RECURSIVE NatString(_)
NatString(n) ==
    IF n < 10 THEN << Digits[n + 1] >> ELSE NatString(n \div 10) \o << Digits[(n % 10) + 1] >>

\* the decimal text a user writes for m
IntString(m) == IF m < 0 THEN <<"-">> \o NatString(0 - m) ELSE NatString(m)

\* NUMBER_CONTRIBUTIONS was set to the text of n and has been read
ConfigRead(n) ==
    /\ nContsEnv = [present |-> TRUE, value |-> IntString(n)]
    /\ gpc = "started"

\* no UploadFile call against the platform file is under way
UploadIdle ==
    /\ platformFile = [exists |-> FALSE, content |-> << >>, sha |-> << >>]
    /\ held = [Name |-> << >>, SHA |-> << >>]
    /\ upc = "idle"
    /\ ureq = [message |-> << >>, content |-> << >>, sha |-> << >>]
    /\ usignal = "none"
    /\ ustatus = 0
    /\ writes = 0

\* main and the scanner goroutine before their first statement
Start ==
    /\ stack = << Frame(RootURL, << >>) >>
    /\ spc = "run"
    /\ getRepoOutput = << >>
    /\ outputClosed = FALSE
    /\ getRepoContentsErrorChan = 0
    /\ errorClosed = FALSE
    /\ terminateGetRepo = 0
    /\ terminateClosed = FALSE
    /\ openBodies = 0
    /\ cpc = "receiveContribution"
    /\ contributionResult = [NumberContributions |-> 0, Err |-> FALSE]
    /\ minEnv = [present |-> FALSE, value |-> << >>]
    /\ contents = << >>
    /\ clock = 0
    /\ uploaded = << >>
    /\ updateErrorChan = 0
    /\ updateDonechan = 0
    /\ numMessagesReceived = 0
    /\ exit = "running"
    /\ requests = << >>
    /\ sent = << >>
    /\ errorsSent = 0
    /\ observed = 0
    /\ cancelAt = -1
    /\ took = "nothing"
    /\ decision = "none"
    /\ nameChange = FALSE

\* the coordinator with the walk and the mutator; the counter is the item
\* main receives from it (ReceiveContribution)
Init ==
    /\ treeId \in 1..Len(Trees)
    /\ numberOfContributionsToMake \in 0..MaxN
    /\ Start
    /\ events = << >>
    /\ now = 0
    /\ repoAnswers = [r \in Repos |-> RepoFound]
    /\ CounterStart
    /\ ConfigRead(numberOfContributionsToMake)
    /\ UploadIdle

-----------------------------------------------------------------------------
(* GetRepoContents *)

Top == stack[Len(stack)]
SetTop(f) == [stack EXCEPT ![Len(stack)] = f]
ScannerAt(pc) == exit = "running" /\ spc = "run" /\ Len(stack) > 0 /\ Top.pc = pc

\* return from the innermost call; closeBody says whether this exit path
\* calls resp.Body.Close()
Return(closeBody) ==
    /\ stack' = IF Len(stack) = 1 THEN << >>
                ELSE [SubSeq(stack, 1, Len(stack) - 1)
                        EXCEPT ![Len(stack) - 1].idx = @ + 1]
    /\ spc' = IF Len(stack) = 1 THEN "defer" ELSE spc
    /\ openBodies' = IF closeBody /\ Top.open THEN openBodies - 1 ELSE openBodies

\* the first loop without its len(result) == n exit
RECURSIVE Collect_NoLimit(_, _, _, _)
Collect_NoLimit(result, shallowResult, i, n) ==
    IF i > Len(shallowResult) THEN [result |-> result, full |-> FALSE]
    ELSE IF shallowResult[i].Type = "file" /\ fileCanBeModified(shallowResult[i].Name)
         THEN Collect_NoLimit(Append(result, shallowResult[i]), shallowResult, i + 1, n)
         ELSE Collect_NoLimit(result, shallowResult, i + 1, n)

\* the first loop over shallowResult: the result after entries i.. have been
\* looked at, and whether the loop left through the len(result) == n exit
RECURSIVE Collect(_, _, _, _)
Collect(result, shallowResult, i, n) ==
    IF i > Len(shallowResult) THEN [result |-> result, full |-> FALSE]
    ELSE IF Len(result) = n THEN [result |-> result, full |-> TRUE]
    ELSE IF shallowResult[i].Type = "file" /\ fileCanBeModified(shallowResult[i].Name)
         THEN Collect(Append(result, shallowResult[i]), shallowResult, i + 1, n)
         ELSE Collect(result, shallowResult, i + 1, n)

\* select { case <-terminate: ... default: if len(result) == nRequiredContents ...
SEntry ==
    /\ ScannerAt("entry")
    /\ IF terminateGetRepo > 0
       THEN /\ terminateGetRepo' = terminateGetRepo - 1
            /\ observed' = observed + 1
            /\ stack' = SetTop([Top EXCEPT !.pc = "resend"])
       ELSE /\ UNCHANGED << terminateGetRepo, observed >>
            /\ stack' = SetTop([Top EXCEPT !.pc =
                   IF Len(Top.result) = numberOfContributionsToMake
                   THEN "sendOut" ELSE "fetch"])
    /\ UNCHANGED << spc, openBodies, requests, sent, errorsSent, getRepoOutput,
                    outputClosed, getRepoContentsErrorChan, errorClosed,
                    terminateClosed, exit >>
    /\ UNCHANGED << mainVars, inputVars, counterVars, configVars, uploadVars >>

\* terminate <- struct{}{}; return   (after a received terminate message)
SResend ==
    /\ ScannerAt("resend")
    /\ terminateGetRepo < TerminateCap
    /\ terminateGetRepo' = terminateGetRepo + 1
    /\ Return(FALSE)
    /\ UNCHANGED << requests, sent, errorsSent, getRepoOutput, outputClosed,
                    getRepoContentsErrorChan, errorClosed, terminateClosed, exit >>
    /\ UNCHANGED << mainVars, inputVars, counterVars, configVars, uploadVars, observed >>

\* http.NewRequest, client.Do, Decode and the first loop over shallowResult
SFetch(outcome) ==
    /\ ScannerAt("fetch")
    /\ \/ /\ outcome = "newRequestErr"
          /\ stack' = SetTop([Top EXCEPT !.pc = "sendErr"])
          /\ UNCHANGED << requests, openBodies >>
       \/ /\ outcome = "doErr"
          /\ stack' = SetTop([Top EXCEPT !.pc = "sendErr"])
          /\ requests' = Append(requests, Top.url)
          /\ UNCHANGED openBodies
       \/ /\ outcome = "decodeErr"
          /\ stack' = SetTop([Top EXCEPT !.pc = "sendErr", !.open = TRUE])
          /\ requests' = Append(requests, Top.url)
          /\ openBodies' = openBodies + 1
       \/ /\ outcome = "ok"
          /\ LET c == Collect(Top.result, Tree[Top.url], 1, numberOfContributionsToMake)
             IN stack' = SetTop([Top EXCEPT !.result = c.result, !.open = TRUE,
                                 !.pc = IF c.full THEN "sendOut" ELSE "loop2",
                                 !.idx = 1])
          /\ requests' = Append(requests, Top.url)
          /\ openBodies' = openBodies + 1
    /\ UNCHANGED << spc, sent, errorsSent, getRepoOutput, outputClosed,
                    getRepoContentsErrorChan, errorClosed, terminateGetRepo,
                    terminateClosed, exit >>
    /\ UNCHANGED << mainVars, inputVars, counterVars, configVars, uploadVars, observed >>

\* errorChan <- fmt.Errorf(...)
SSendErr ==
    /\ ScannerAt("sendErr")
    /\ IF errorClosed
       THEN /\ exit' = "panic"
            /\ UNCHANGED << stack, getRepoContentsErrorChan, errorsSent >>
       ELSE /\ getRepoContentsErrorChan < ErrorCap
            /\ getRepoContentsErrorChan' = getRepoContentsErrorChan + 1
            /\ errorsSent' = errorsSent + 1
            /\ stack' = SetTop([Top EXCEPT !.pc = "termErr"])
            /\ UNCHANGED exit
    /\ UNCHANGED << spc, openBodies, requests, sent, getRepoOutput, outputClosed,
                    errorClosed, terminateGetRepo, terminateClosed >>
    /\ UNCHANGED << mainVars, inputVars, counterVars, configVars, uploadVars, observed >>

\* an error exit that returns without the terminate message
STermErr_Silent ==
    /\ ScannerAt("termErr")
    /\ Return(TRUE)
    /\ UNCHANGED << requests, sent, errorsSent, getRepoOutput, outputClosed,
                    getRepoContentsErrorChan, errorClosed, terminateGetRepo,
                    terminateClosed, exit >>
    /\ UNCHANGED << mainVars, inputVars, counterVars, configVars, uploadVars, observed >>

\* terminate <- struct{}{}; [resp.Body.Close()]; return   (after an error)
STermErr ==
    /\ ScannerAt("termErr")
    /\ terminateGetRepo < TerminateCap
    /\ terminateGetRepo' = terminateGetRepo + 1
    /\ Return(TRUE)
    /\ UNCHANGED << requests, sent, errorsSent, getRepoOutput, outputClosed,
                    getRepoContentsErrorChan, errorClosed, terminateClosed, exit >>
    /\ UNCHANGED << mainVars, inputVars, counterVars, configVars, uploadVars, observed >>

\* output <- result   (len(result) == nRequiredContents)
SSendOut ==
    /\ ScannerAt("sendOut")
    /\ IF outputClosed
       THEN /\ exit' = "panic"
            /\ UNCHANGED << stack, getRepoOutput, sent >>
       ELSE /\ Len(getRepoOutput) < OutputCap
            /\ getRepoOutput' = Append(getRepoOutput, Top.result)
            /\ sent' = Append(sent, Top.result)
            /\ stack' = SetTop([Top EXCEPT !.pc = "sendTerm"])
            /\ UNCHANGED exit
    /\ UNCHANGED << spc, openBodies, requests, errorsSent, outputClosed,
                    getRepoContentsErrorChan, errorClosed, terminateGetRepo,
                    terminateClosed >>
    /\ UNCHANGED << mainVars, inputVars, counterVars, configVars, uploadVars, observed >>

\* a proper exit that returns without the terminate message
SSendTerm_Silent ==
    /\ ScannerAt("sendTerm")
    /\ Return(TRUE)
    /\ UNCHANGED << requests, sent, errorsSent, getRepoOutput, outputClosed,
                    getRepoContentsErrorChan, errorClosed, terminateGetRepo,
                    terminateClosed, exit >>
    /\ UNCHANGED << mainVars, inputVars, counterVars, configVars, uploadVars, observed >>

\* terminate <- struct{}{}; [resp.Body.Close()]; return   (after a result)
SSendTerm ==
    /\ ScannerAt("sendTerm")
    /\ terminateGetRepo < TerminateCap
    /\ terminateGetRepo' = terminateGetRepo + 1
    /\ Return(TRUE)
    /\ UNCHANGED << requests, sent, errorsSent, getRepoOutput, outputClosed,
                    getRepoContentsErrorChan, errorClosed, terminateClosed, exit >>
    /\ UNCHANGED << mainVars, inputVars, counterVars, configVars, uploadVars, observed >>

\* one iteration of the second loop over shallowResult
SLoop2 ==
    /\ ScannerAt("loop2")
    /\ Top.idx <= Len(Tree[Top.url])
    /\ IF terminateGetRepo > 0
       THEN /\ terminateGetRepo' = terminateGetRepo - 1
            /\ observed' = observed + 1
            /\ stack' = SetTop([Top EXCEPT !.pc = "resend"])
       ELSE /\ UNCHANGED << terminateGetRepo, observed >>
            /\ IF Len(Top.result) = numberOfContributionsToMake
               THEN stack' = SetTop([Top EXCEPT !.pc = "sendOut"])
               ELSE IF Tree[Top.url][Top.idx].Type = "dir"
               THEN /\ Len(stack) < MaxDepth
                    /\ stack' = Append(stack, Frame(Tree[Top.url][Top.idx].Self, Top.result))
               ELSE stack' = SetTop([Top EXCEPT !.idx = @ + 1])
    /\ UNCHANGED << spc, openBodies, requests, sent, errorsSent, getRepoOutput,
                    outputClosed, getRepoContentsErrorChan, errorClosed,
                    terminateClosed, exit >>
    /\ UNCHANGED << mainVars, inputVars, counterVars, configVars, uploadVars >>

\* a return after the second loop that never sends what was accumulated
STail_NoSend ==
    /\ ScannerAt("loop2")
    /\ Top.idx > Len(Tree[Top.url])
    /\ Return(TRUE)
    /\ UNCHANGED << getRepoOutput, sent, exit >>
    /\ UNCHANGED << requests, errorsSent, outputClosed, getRepoContentsErrorChan,
                    errorClosed, terminateGetRepo, terminateClosed >>
    /\ UNCHANGED << mainVars, inputVars, counterVars, configVars, uploadVars, observed >>

\* after the second loop: if url == <root listing URL> { output <- result };
\* resp.Body.Close(); return
STail ==
    /\ ScannerAt("loop2")
    /\ Top.idx > Len(Tree[Top.url])
    /\ IF Top.url # RootURL
       THEN /\ Return(TRUE)
            /\ UNCHANGED << getRepoOutput, sent, exit >>
       ELSE IF outputClosed
       THEN /\ exit' = "panic"
            /\ UNCHANGED << stack, spc, openBodies, getRepoOutput, sent >>
       ELSE /\ Len(getRepoOutput) < OutputCap
            /\ getRepoOutput' = Append(getRepoOutput, Top.result)
            /\ sent' = Append(sent, Top.result)
            /\ Return(TRUE)
            /\ UNCHANGED exit
    /\ UNCHANGED << requests, errorsSent, outputClosed, getRepoContentsErrorChan,
                    errorClosed, terminateGetRepo, terminateClosed >>
    /\ UNCHANGED << mainVars, inputVars, counterVars, configVars, uploadVars, observed >>

\* defer close(terminateGetRepo) of the goroutine that wraps GetRepoContents
SDeferClose ==
    /\ exit = "running"
    /\ spc = "defer"
    /\ spc' = "done"
    /\ terminateClosed' = TRUE
    /\ UNCHANGED << stack, openBodies, requests, sent, errorsSent, getRepoOutput,
                    outputClosed, getRepoContentsErrorChan, errorClosed,
                    terminateGetRepo, exit >>
    /\ UNCHANGED << mainVars, inputVars, counterVars, configVars, uploadVars, observed >>

-----------------------------------------------------------------------------
(* main *)

Counts == (0..MaxCount) \cup {50}

\* what the counter can deliver on contributionChannel
ContributionItems ==
    {[NumberContributions |-> c, Err |-> FALSE] : c \in Counts}
        \cup {[NumberContributions |-> -1, Err |-> TRUE]}

\* MIN_CONTRIBUTIONS: not set, or set to a text
MinValues == (-2)..(MaxCount + 1)
MinEnvs ==
    {[present |-> FALSE, value |-> << >>]}
        \cup {[present |-> TRUE, value |-> IntString(m)] : m \in MinValues}
        \cup {[present |-> TRUE, value |-> v] : v \in {<<"+", "1">>, <<"1", "x">>, << >>}}

\* minContributions after os.LookupEnv and strconv.Atoi
minContributionsOf(env) == IF env.present THEN Atoi(env.value).n ELSE NoMinimum

\* the comparison without the "|| minContributions == -1" disjunct
MakeContributions_NoSentinel(count, min) == count < min

\* if contributionResult.NumberContributions < minContributions || minContributions == -1
MakeContributions(count, min) == count < min \/ min = NoMinimum

MainAt(pc) == exit = "running" /\ cpc = pc

\* the receive without the check of contributionResult.Err
ReceiveContribution_IgnoreErr(item) ==
    /\ MainAt("receiveContribution")
    /\ contributionResult' = item
    /\ cpc' = "decide"
    /\ UNCHANGED << minEnv, contents, clock, uploaded, updateErrorChan, updateDonechan,
                    numMessagesReceived, cancelAt, took, decision, exit >>
    /\ UNCHANGED << scannerVars, inputVars, counterVars, configVars, uploadVars, nameChange, getRepoOutput, outputClosed,
                    getRepoContentsErrorChan, errorClosed, terminateGetRepo,
                    terminateClosed >>

\* contributionResult := <-contributionChannel; if contributionResult.Err != nil { log.Fatalf }
ReceiveContribution(item) ==
    /\ MainAt("receiveContribution")
    /\ contributionResult' = item
    /\ IF item.Err
       THEN exit' = "fatal" /\ UNCHANGED cpc
       ELSE cpc' = "decide" /\ UNCHANGED exit
    /\ UNCHANGED << minEnv, contents, clock, uploaded, updateErrorChan, updateDonechan,
                    numMessagesReceived, cancelAt, took, decision >>
    /\ UNCHANGED << scannerVars, inputVars, counterVars, configVars, uploadVars, nameChange, getRepoOutput, outputClosed,
                    getRepoContentsErrorChan, errorClosed, terminateGetRepo,
                    terminateClosed >>

\* os.LookupEnv("MIN_CONTRIBUTIONS"), strconv.Atoi and the comparison
Decide(env) ==
    /\ MainAt("decide")
    /\ minEnv' = env
    /\ IF env.present /\ ~Atoi(env.value).ok
       THEN exit' = "fatal" /\ UNCHANGED << cpc, decision >>
       ELSE /\ UNCHANGED exit
            /\ cpc' = IF MakeContributions(contributionResult.NumberContributions,
                                           minContributionsOf(env))
                      THEN "mutSelect" ELSE "noMutSelect"
            /\ decision' = IF cpc' = "mutSelect" THEN "mutate" ELSE "skip"
    /\ UNCHANGED << contributionResult, contents, clock, uploaded, updateErrorChan,
                    updateDonechan, numMessagesReceived, cancelAt, took >>
    /\ UNCHANGED << scannerVars, inputVars, counterVars, configVars, uploadVars, nameChange, getRepoOutput, outputClosed,
                    getRepoContentsErrorChan, errorClosed, terminateGetRepo,
                    terminateClosed >>

\* a mutator that uploads what it was given without creating the rest
MutatorPc_NoCreate(c, up, received) ==
    IF Len(up) < Len(c) THEN "upload"
    ELSE IF received < numberOfContributionsToMake THEN "drain"
    ELSE "return"

\* where the mutator stands with these contents, uploads and receptions
MutatorPc(c, up, received) ==
    IF Len(c) < numberOfContributionsToMake THEN "synthesize"
    ELSE IF Len(up) < Len(c) THEN "upload"
    ELSE IF received < numberOfContributionsToMake THEN "drain"
    ELSE "return"

\* a select that goes on without a message from the scanner
MutSelect_NoWait ==
    /\ MainAt("mutSelect")
    /\ contents' = << >>
    /\ cpc' = "closeErr"
    /\ UNCHANGED << getRepoOutput, getRepoContentsErrorChan, took >>
    /\ UNCHANGED << contributionResult, minEnv, clock, uploaded, updateErrorChan,
                    updateDonechan, numMessagesReceived, cancelAt, exit >>
    /\ UNCHANGED << scannerVars, inputVars, counterVars, configVars, uploadVars, nameChange, decision, outputClosed, errorClosed,
                    terminateGetRepo, terminateClosed >>

\* the blocking select of the mutating path
MutSelect ==
    /\ MainAt("mutSelect")
    /\ \/ /\ getRepoContentsErrorChan > 0
          /\ getRepoContentsErrorChan' = getRepoContentsErrorChan - 1
          /\ took' = "error"
          /\ cpc' = "closeErrFatal"
          /\ UNCHANGED << getRepoOutput, contents >>
       \/ /\ Len(getRepoOutput) > 0
          /\ contents' = Head(getRepoOutput)
          /\ getRepoOutput' = Tail(getRepoOutput)
          /\ took' = "result"
          /\ cpc' = "closeErr"
          /\ UNCHANGED getRepoContentsErrorChan
    /\ UNCHANGED << contributionResult, minEnv, clock, uploaded, updateErrorChan,
                    updateDonechan, numMessagesReceived, cancelAt, exit >>
    /\ UNCHANGED << scannerVars, inputVars, counterVars, configVars, uploadVars, nameChange, decision, outputClosed, errorClosed,
                    terminateGetRepo, terminateClosed >>

\* close(getRepoContentsErrorChan)
CloseErrorChan ==
    /\ exit = "running"
    /\ cpc \in {"closeErrFatal", "closeErr"}
    /\ errorClosed' = TRUE
    /\ cpc' = IF cpc = "closeErr" THEN "closeOut" ELSE "closeOutFatal"
    /\ UNCHANGED << contributionResult, minEnv, contents, clock, uploaded,
                    updateErrorChan, updateDonechan, numMessagesReceived, cancelAt,
                    took, exit >>
    /\ UNCHANGED << scannerVars, inputVars, counterVars, configVars, uploadVars, nameChange, decision, getRepoOutput, outputClosed,
                    getRepoContentsErrorChan, terminateGetRepo, terminateClosed >>

\* close(getRepoOutput), then log.Fatalf (error taken) or the mutator (result taken)
CloseOutput ==
    /\ exit = "running"
    /\ cpc \in {"closeOutFatal", "closeOut"}
    /\ outputClosed' = TRUE
    /\ IF cpc = "closeOutFatal"
       THEN exit' = "fatal" /\ UNCHANGED cpc
       ELSE cpc' = MutatorPc(contents, uploaded, numMessagesReceived) /\ UNCHANGED exit
    /\ UNCHANGED << contributionResult, minEnv, contents, clock, uploaded,
                    updateErrorChan, updateDonechan, numMessagesReceived, cancelAt, took >>
    /\ UNCHANGED << scannerVars, inputVars, counterVars, configVars, uploadVars, nameChange, decision, getRepoOutput, errorClosed,
                    getRepoContentsErrorChan, terminateGetRepo, terminateClosed >>

-----------------------------------------------------------------------------
(* UpdateFilesAndCreateRemaining, UploadFile *)

RECURSIVE ReplaceAll(_, _, _)
ReplaceAll(s, old, new) ==
    IF s = << >> THEN << >>
    ELSE << (IF Head(s) = old THEN new ELSE Head(s)) >> \o ReplaceAll(Tail(s), old, new)

\* time.Now().String() at instant t, shortened to "h:m.t"
TimeString(t) == <<"h", ":", "m", ".", Digits[(t % 10) + 1]>>

NewFileName(t) ==
    ReplaceAll(ReplaceAll(TimeString(t), ":", "x"), ".", ",") \o <<".", "g", "o">>

\* the create loop without its comparison against contents
NameTaken_Never(c, name) == FALSE

NameTaken(c, name) == \E i \in 1..Len(c) : c[i].Path = name

\* one pass from the label NameChange: read the clock, check the name
\* against contents, append the new descriptor or go back to NameChange
Synthesize(t) ==
    /\ MainAt("synthesize")
    /\ t >= clock
    /\ clock' = t
    /\ IF NameTaken(contents, NewFileName(t))
       THEN nameChange' = TRUE /\ UNCHANGED << contents, cpc >>
       ELSE /\ contents' = Append(contents,
                  [Name |-> NewFileName(t), Path |-> NewFileName(t), SHA |-> "",
                   Type |-> "file", Self |-> ""])
            /\ cpc' = MutatorPc(contents', uploaded, numMessagesReceived)
            /\ UNCHANGED nameChange
    /\ UNCHANGED << contributionResult, minEnv, uploaded, updateErrorChan,
                    updateDonechan, numMessagesReceived, cancelAt, took, exit >>
    /\ UNCHANGED << scannerVars, inputVars, counterVars, configVars, uploadVars, decision, getRepoOutput, outputClosed, errorClosed,
                    getRepoContentsErrorChan, terminateGetRepo, terminateClosed >>

\* an UploadFile that sends its error and goes on to send done as well
Upload_SignalTwice(outcome) ==
    /\ MainAt("upload")
    /\ uploaded' = Append(uploaded, contents[Len(uploaded) + 1])
    /\ updateDonechan' = updateDonechan + 1
    /\ updateErrorChan' = IF outcome = "ok" THEN updateErrorChan ELSE updateErrorChan + 1
    /\ cpc' = MutatorPc(contents, uploaded', numMessagesReceived)
    /\ UNCHANGED << contributionResult, minEnv, contents, clock, numMessagesReceived,
                    cancelAt, took, exit >>
    /\ UNCHANGED << scannerVars, inputVars, counterVars, configVars, uploadVars, nameChange, decision, getRepoOutput,
                    outputClosed, errorClosed, getRepoContentsErrorChan, terminateGetRepo,
                    terminateClosed >>

\* UploadFile for the next descriptor of contents
Upload(outcome) ==
    /\ MainAt("upload")
    /\ uploaded' = Append(uploaded, contents[Len(uploaded) + 1])
    /\ IF outcome = "ok"
       THEN /\ updateDonechan' = updateDonechan + 1
            /\ UNCHANGED updateErrorChan
       ELSE /\ updateErrorChan' = updateErrorChan + 1
            /\ UNCHANGED updateDonechan
    /\ cpc' = MutatorPc(contents, uploaded', numMessagesReceived)
    /\ UNCHANGED << contributionResult, minEnv, contents, clock, numMessagesReceived,
                    cancelAt, took, exit >>
    /\ UNCHANGED << scannerVars, inputVars, counterVars, configVars, uploadVars, nameChange, decision, getRepoOutput, outputClosed, errorClosed,
                    getRepoContentsErrorChan, terminateGetRepo, terminateClosed >>

\* one iteration of the loop that receives the upload signals
Drain ==
    /\ MainAt("drain")
    /\ \/ /\ updateErrorChan > 0
          /\ updateErrorChan' = updateErrorChan - 1
          /\ UNCHANGED updateDonechan
       \/ /\ updateDonechan > 0
          /\ updateDonechan' = updateDonechan - 1
          /\ UNCHANGED updateErrorChan
    /\ numMessagesReceived' = numMessagesReceived + 1
    /\ cpc' = MutatorPc(contents, uploaded, numMessagesReceived')
    /\ UNCHANGED << contributionResult, minEnv, contents, clock, uploaded, cancelAt,
                    took, exit >>
    /\ UNCHANGED << scannerVars, inputVars, counterVars, configVars, uploadVars, nameChange, decision, getRepoOutput, outputClosed, errorClosed,
                    getRepoContentsErrorChan, terminateGetRepo, terminateClosed >>

-----------------------------------------------------------------------------
(* main, the path without contributions *)

\* a select that takes its default branch whatever the channels hold
NoMutSelect_AlwaysCancel ==
    /\ MainAt("noMutSelect")
    /\ took' = "default"
    /\ cpc' = "cancelSend"
    /\ UNCHANGED << getRepoOutput, getRepoContentsErrorChan >>
    /\ UNCHANGED << contributionResult, minEnv, contents, clock, uploaded,
                    updateErrorChan, updateDonechan, numMessagesReceived, cancelAt, exit >>
    /\ UNCHANGED << scannerVars, inputVars, counterVars, configVars, uploadVars, nameChange, decision, outputClosed,
                    errorClosed, terminateGetRepo, terminateClosed >>

\* select { case <-getRepoContentsErrorChan: case <-getRepoOutput: default: }
NoMutSelect ==
    /\ MainAt("noMutSelect")
    /\ \/ /\ getRepoContentsErrorChan > 0
          /\ getRepoContentsErrorChan' = getRepoContentsErrorChan - 1
          /\ took' = "error"
          /\ cpc' = "return"
          /\ UNCHANGED getRepoOutput
       \/ /\ Len(getRepoOutput) > 0
          /\ getRepoOutput' = Tail(getRepoOutput)
          /\ took' = "result"
          /\ cpc' = "return"
          /\ UNCHANGED getRepoContentsErrorChan
       \/ /\ getRepoContentsErrorChan = 0
          /\ Len(getRepoOutput) = 0
          /\ took' = "default"
          /\ cpc' = "cancelSend"
          /\ UNCHANGED << getRepoOutput, getRepoContentsErrorChan >>
    /\ UNCHANGED << contributionResult, minEnv, contents, clock, uploaded,
                    updateErrorChan, updateDonechan, numMessagesReceived, cancelAt, exit >>
    /\ UNCHANGED << scannerVars, inputVars, counterVars, configVars, uploadVars, nameChange, decision, outputClosed, errorClosed,
                    terminateGetRepo, terminateClosed >>

\* terminateGetRepo <- struct{}{}
CancelSend ==
    /\ MainAt("cancelSend")
    /\ IF terminateClosed
       THEN /\ exit' = "panic"
            /\ UNCHANGED << terminateGetRepo, cancelAt, cpc >>
       ELSE /\ terminateGetRepo < TerminateCap
            /\ terminateGetRepo' = terminateGetRepo + 1
            /\ cancelAt' = Len(requests)
            /\ cpc' = "return"
            /\ UNCHANGED exit
    /\ UNCHANGED << contributionResult, minEnv, contents, clock, uploaded,
                    updateErrorChan, updateDonechan, numMessagesReceived, took >>
    /\ UNCHANGED << scannerVars, inputVars, counterVars, configVars, uploadVars, nameChange, decision, getRepoOutput, outputClosed, errorClosed,
                    getRepoContentsErrorChan, terminateClosed >>

\* main returns: the process ends with status 0
MainReturn ==
    /\ MainAt("return")
    /\ exit' = "ok"
    /\ UNCHANGED << mainVars, scannerVars, inputVars, counterVars, configVars, uploadVars, getRepoOutput, outputClosed,
                    errorClosed, getRepoContentsErrorChan, terminateGetRepo,
                    terminateClosed >>

-----------------------------------------------------------------------------
(* GetNumberOfContributionsToday, repoExists, sameDay *)

\* Time.Date(): the local calendar day (year, month and day) of an instant
LocalDate(t) == t \div TicksPerDay

\* a comparison that also accepts the days before today
sameDay_NotAfter(other) == LocalDate(other) <= LocalDate(now)

sameDay(other) == LocalDate(now) = LocalDate(other)

\* a probe whose failures are taken for "the repository does not exist"
repoExists_FailureMeansAbsent(repoName, map, answer) ==
    IF map[repoName] # "absent"
    THEN [value |-> map[repoName] = "true", err |-> FALSE, map |-> map, called |-> FALSE]
    ELSE IF answer.fail # "none"
    THEN [value |-> FALSE, err |-> FALSE, map |-> map, called |-> answer.fail # "newRequestErr"]
    ELSE IF answer.message = ""
    THEN [value |-> TRUE, err |-> FALSE,
          map |-> [map EXCEPT ![repoName] = "true"], called |-> TRUE]
    ELSE IF answer.message = "Not Found"
    THEN [value |-> FALSE, err |-> FALSE,
          map |-> [map EXCEPT ![repoName] = "false"], called |-> TRUE]
    ELSE [value |-> TRUE, err |-> FALSE, map |-> map, called |-> TRUE]

\* repoExists with the map as it stands and the platform's answer for
\* repoName: the returned pair, the map afterwards, and whether client.Do ran
repoExists(repoName, map, answer) ==
    IF map[repoName] # "absent"
    THEN [value |-> map[repoName] = "true", err |-> FALSE, map |-> map, called |-> FALSE]
    ELSE IF answer.fail = "newRequestErr"
    THEN [value |-> FALSE, err |-> TRUE, map |-> map, called |-> FALSE]
    ELSE IF answer.fail \in {"doErr", "decodeErr"}
    THEN [value |-> FALSE, err |-> TRUE, map |-> map, called |-> TRUE]
    ELSE IF answer.message = ""
    THEN [value |-> TRUE, err |-> FALSE,
          map |-> [map EXCEPT ![repoName] = "true"], called |-> TRUE]
    ELSE IF answer.message = "Not Found"
    THEN [value |-> FALSE, err |-> FALSE,
          map |-> [map EXCEPT ![repoName] = "false"], called |-> TRUE]
    ELSE [value |-> TRUE, err |-> FALSE, map |-> map, called |-> TRUE]

\* what one same-day event of an existing repository adds to the count
Contribution(event) ==
    IF event.Type = "CreateEvent"
    THEN IF event.Payload.RefType = "repository" \/ event.Payload.Ref = "master"
         THEN 1 ELSE 0
    ELSE IF event.Type = "PullRequestEvent" THEN 1
    ELSE IF event.Type = "PushEvent"
    THEN Cardinality({i \in 1..Len(event.Payload.Commits) :
                        event.Payload.Commits[i].Message # "Update README.md"})
    ELSE 0

CounterAt(pc) == kpc = pc

walkAndMainVars ==
    << scannerVars, mainVars, inputVars, getRepoOutput, outputClosed,
       getRepoContentsErrorChan, errorClosed, terminateGetRepo, terminateClosed, exit >>

EventFetchOutcomes == {"newRequestErr", "doErr", "notOK", "decodeErr", "ok"}

\* the events request: http.NewRequest (its error is not looked at, the
\* Header.Add that follows dereferences the nil request), client.Do, the
\* status check and the decoding
CFetch(outcome) ==
    /\ CounterAt("fetch")
    /\ fetchOutcome' = outcome
    /\ IF outcome = "newRequestErr"
       THEN kpc' = "panic" /\ UNCHANGED << eventIdx, counterReturn >>
       ELSE IF outcome = "ok"
       THEN kpc' = "loop" /\ eventIdx' = 1 /\ UNCHANGED counterReturn
       ELSE /\ kpc' = "done"
            /\ counterReturn' = [n |-> -1, err |-> TRUE]
            /\ UNCHANGED eventIdx
    /\ UNCHANGED << events, now, repoAnswers, repoMap, probeCalls,
                    numberOfContributionsToday >>
    /\ UNCHANGED << walkAndMainVars, configVars, uploadVars >>

\* one iteration of the loop for an event of today
CSameDayEvent ==
    /\ CounterAt("loop")
    /\ eventIdx <= Len(events)
    /\ sameDay(events[eventIdx].CreatedAt)
    /\ LET event == events[eventIdx]
           name == event.Repo.Name
           probe == repoExists(name, repoMap, repoAnswers[name])
       IN  /\ repoMap' = probe.map
           /\ probeCalls' = IF probe.called
                            THEN [probeCalls EXCEPT ![name] = @ + 1]
                            ELSE probeCalls
           /\ IF probe.err
              THEN /\ kpc' = "done"
                   /\ counterReturn' = [n |-> -1, err |-> TRUE]
                   /\ UNCHANGED << eventIdx, numberOfContributionsToday >>
              ELSE /\ numberOfContributionsToday' =
                        numberOfContributionsToday
                        + (IF probe.value THEN Contribution(event) ELSE 0)
                   /\ eventIdx' = eventIdx + 1
                   /\ UNCHANGED << kpc, counterReturn >>
    /\ UNCHANGED << events, now, repoAnswers, fetchOutcome >>
    /\ UNCHANGED << walkAndMainVars, configVars, uploadVars >>

\* the first event that is not of today: break, and the return after the loop
CBreak ==
    /\ CounterAt("loop")
    /\ eventIdx <= Len(events)
    /\ ~sameDay(events[eventIdx].CreatedAt)
    /\ kpc' = "done"
    /\ counterReturn' = [n |-> numberOfContributionsToday, err |-> FALSE]
    /\ UNCHANGED << events, now, repoAnswers, fetchOutcome, eventIdx, repoMap,
                    probeCalls, numberOfContributionsToday >>
    /\ UNCHANGED << walkAndMainVars, configVars, uploadVars >>

\* the range is exhausted: the return after the loop
CReturn ==
    /\ CounterAt("loop")
    /\ eventIdx > Len(events)
    /\ kpc' = "done"
    /\ counterReturn' = [n |-> numberOfContributionsToday, err |-> FALSE]
    /\ UNCHANGED << events, now, repoAnswers, fetchOutcome, eventIdx, repoMap,
                    probeCalls, numberOfContributionsToday >>
    /\ UNCHANGED << walkAndMainVars, configVars, uploadVars >>

\* one call of GetNumberOfContributionsToday on any event list, instant and
\* platform answers
CounterInit ==
    /\ treeId = 1
    /\ numberOfContributionsToMake = 0
    /\ Start
    /\ events \in EventLists
    /\ now \in 0..MaxTick
    /\ repoAnswers \in [Repos -> ProbeAnswers]
    /\ CounterStart
    /\ ConfigRead(0)
    /\ UploadIdle

CounterNext ==
    \/ \E o \in EventFetchOutcomes : CFetch(o)
    \/ CSameDayEvent
    \/ CBreak
    \/ CReturn

CounterSpec == CounterInit /\ [][CounterNext]_vars

-----------------------------------------------------------------------------
(* The number of contributions to make (main, NUMBER_CONTRIBUTIONS)          *)

\* NUMBER_CONTRIBUTIONS: not set, or set to a text
NumberEnvs ==
    {[present |-> FALSE, value |-> << >>]}
        \cup {[present |-> TRUE, value |-> IntString(m)] :
                 m \in (0 - MaxConfigured)..MaxConfigured}
        \cup {[present |-> TRUE, value |-> <<"+">> \o IntString(m)] : m \in 0..2}
        \cup {[present |-> TRUE, value |-> v] :
                 v \in {<< >>, <<"5", "x">>, <<" ", "5">>, <<"3", ".", "5">>, <<"-">>}}

\* rand.Intn(n): an integer of the half-open interval [0, n)
RandIntn(n) == 0..(n - 1)

\* a default that starts at 2
DefaultContributions_FromTwo(r) == r + 2

\* numberOfContributionsToMake = rand.Intn(5) + 3
DefaultContributions(r) == r + 3

\* nConts, present := os.LookupEnv("NUMBER_CONTRIBUTIONS") and the if that
\* sets numberOfContributionsToMake
LookupNumberContributions ==
    /\ gpc = "lookup"
    /\ exit = "running"
    /\ IF nContsEnv.present
       THEN IF Atoi(nContsEnv.value).ok
            THEN /\ numberOfContributionsToMake' = Atoi(nContsEnv.value).n
                 /\ gpc' = "start"
                 /\ UNCHANGED exit
            ELSE /\ exit' = "fatal"
                 /\ UNCHANGED << numberOfContributionsToMake, gpc >>
       ELSE /\ \E r \in RandIntn(5) :
                   numberOfContributionsToMake' = DefaultContributions(r)
            /\ gpc' = "start"
            /\ UNCHANGED exit
    /\ UNCHANGED << treeId, nContsEnv, scannerVars, mainVars, counterVars, uploadVars,
                    getRepoOutput, outputClosed, getRepoContentsErrorChan, errorClosed,
                    terminateGetRepo, terminateClosed >>

\* the scanner goroutine's first statement:
\* make([]RepoContent, 0, numberOfContributionsToMake) panics on a negative capacity
StartScanner ==
    /\ gpc = "start"
    /\ exit = "running"
    /\ IF numberOfContributionsToMake < 0
       THEN exit' = "panic" /\ UNCHANGED gpc
       ELSE gpc' = "started" /\ UNCHANGED exit
    /\ UNCHANGED << inputVars, nContsEnv, scannerVars, mainVars, counterVars, uploadVars,
                    getRepoOutput, outputClosed, getRepoContentsErrorChan, errorClosed,
                    terminateGetRepo, terminateClosed >>

\* main before it reads NUMBER_CONTRIBUTIONS, under any setting of it
ConfigInit ==
    /\ treeId = 1
    /\ numberOfContributionsToMake = 0
    /\ Start
    /\ events = << >>
    /\ now = 0
    /\ repoAnswers = [r \in Repos |-> RepoFound]
    /\ CounterStart
    /\ nContsEnv \in NumberEnvs
    /\ gpc = "lookup"
    /\ UploadIdle

ConfigNext ==
    \/ LookupNumberContributions
    \/ StartScanner

ConfigSpec == ConfigInit /\ [][ConfigNext]_vars

-----------------------------------------------------------------------------
FetchOutcomes == {"newRequestErr", "doErr", "decodeErr", "ok"}
UploadOutcomes == {"newRequestErr", "doErr", "ok"}

Next ==
    \/ SEntry
    \/ SResend
    \/ \E o \in FetchOutcomes : SFetch(o)
    \/ SSendErr
    \/ STermErr
    \/ SSendOut
    \/ SSendTerm
    \/ SLoop2
    \/ STail
    \/ SDeferClose
    \/ \E item \in ContributionItems : ReceiveContribution(item)
    \/ \E env \in MinEnvs : Decide(env)
    \/ MutSelect
    \/ CloseErrorChan
    \/ CloseOutput
    \/ \E t \in 0..MaxTime : Synthesize(t)
    \/ \E o \in UploadOutcomes : Upload(o)
    \/ Drain
    \/ NoMutSelect
    \/ CancelSend
    \/ MainReturn

Spec == Init /\ [][Next]_vars

\* the steps of the goroutine that runs GetRepoContents, and those of main
ScannerNext ==
    \/ SEntry
    \/ SResend
    \/ \E o \in FetchOutcomes : SFetch(o)
    \/ SSendErr
    \/ STermErr
    \/ SSendOut
    \/ SSendTerm
    \/ SLoop2
    \/ STail
    \/ SDeferClose

MainNext ==
    \/ \E item \in ContributionItems : ReceiveContribution(item)
    \/ \E env \in MinEnvs : Decide(env)
    \/ MutSelect
    \/ CloseErrorChan
    \/ CloseOutput
    \/ \E t \in 0..MaxTime : Synthesize(t)
    \/ \E o \in UploadOutcomes : Upload(o)
    \/ Drain
    \/ NoMutSelect
    \/ CancelSend
    \/ MainReturn

\* the Go scheduler runs every goroutine that can take a step, and every
\* request returns (the client has a timeout)
FairSpec == Spec /\ WF_vars(ScannerNext) /\ WF_vars(MainNext)

-----------------------------------------------------------------------------
(* UploadFile and the file it writes (cmd/update.go)                         *)

\* the printable ASCII characters in code order, the first one has code 32
\* (code 96, the grave accent, is written by its name)
Ascii ==
    << " ", "!", "\"", "#", "$", "%", "&", "'", "(", ")", "*", "+",
       ",", "-", ".", "/", "0", "1", "2", "3", "4", "5", "6", "7",
       "8", "9", ":", ";", "<", "=", ">", "?", "@", "A", "B", "C",
       "D", "E", "F", "G", "H", "I", "J", "K", "L", "M", "N", "O",
       "P", "Q", "R", "S", "T", "U", "V", "W", "X", "Y", "Z", "[",
       "\\", "]", "^", "_", "grave", "a", "b", "c", "d", "e", "f", "g",
       "h", "i", "j", "k", "l", "m", "n", "o", "p", "q", "r", "s",
       "t", "u", "v", "w", "x", "y", "z", "{", "|", "}", "~" >>

\* the byte of a character of []byte(text)
Ord(ch) == 31 + (CHOOSE i \in 1..Len(Ascii) : Ascii[i] = ch)

\* the alphabet of base64.StdEncoding
encodeStd ==
    << "A", "B", "C", "D", "E", "F", "G", "H", "I", "J", "K", "L",
       "M", "N", "O", "P", "Q", "R", "S", "T", "U", "V", "W", "X",
       "Y", "Z", "a", "b", "c", "d", "e", "f", "g", "h", "i", "j",
       "k", "l", "m", "n", "o", "p", "q", "r", "s", "t", "u", "v",
       "w", "x", "y", "z", "0", "1", "2", "3", "4", "5", "6", "7",
       "8", "9", "+", "/" >>

\* base64.StdEncoding.EncodeToString: three bytes become four characters, a
\* last group of one or two bytes is padded with "="
RECURSIVE EncodeToString(_)
EncodeToString(b) ==
    IF Len(b) = 0 THEN << >>
    ELSE IF Len(b) = 1 THEN
        LET n == Ord(b[1]) * 65536
        IN << encodeStd[(n \div 262144) + 1], encodeStd[((n \div 4096) % 64) + 1], "=", "=" >>
    ELSE IF Len(b) = 2 THEN
        LET n == Ord(b[1]) * 65536 + Ord(b[2]) * 256
        IN << encodeStd[(n \div 262144) + 1], encodeStd[((n \div 4096) % 64) + 1],
              encodeStd[((n \div 64) % 64) + 1], "=" >>
    ELSE
        LET n == Ord(b[1]) * 65536 + Ord(b[2]) * 256 + Ord(b[3])
        IN << encodeStd[(n \div 262144) + 1], encodeStd[((n \div 4096) % 64) + 1],
              encodeStd[((n \div 64) % 64) + 1], encodeStd[(n % 64) + 1] >>
               \o EncodeToString(SubSeq(b, 4, Len(b)))

CommentPrefix == <<"/", "/", " ">>
CreateMessage ==
    << "c", "r", "e", "a", "t", "i", "n", "g", " ", "f", "i", "l",
       "e", " ", "t", "o", " ", "b", "e", " ", "u", "p", "l", "o",
       "a", "d", "e", "d" >>
UpdateMessagePrefix ==
    << "u", "p", "d", "a", "t", "i", "n", "g", " ", "f", "i", "l",
       "e", " ", "w", "i", "t", "h", " ", "s", "h", "a", ":", " " >>

\* a body whose content is always made from the file name
UploadBody_NameOnly(fileName, sha) ==
    [message |-> IF sha = << >> THEN CreateMessage ELSE UpdateMessagePrefix \o sha,
     content |-> EncodeToString(CommentPrefix \o fileName),
     sha |-> sha]

\* the map UploadFile marshals into the body of its PUT
UploadBody(fileName, sha) ==
    IF sha = << >>
    THEN [message |-> CreateMessage,
          content |-> EncodeToString(CommentPrefix \o fileName),
          sha |-> sha]
    ELSE [message |-> UpdateMessagePrefix \o sha,
          content |-> EncodeToString(CommentPrefix \o sha),
          sha |-> sha]

\* the content identifiers the platform hands out
Shas == {<<"e", Digits[i + 1]>> : i \in 1..MaxShas}

\* the file the run uploads: the listed a.go, or the name made for a new file
UploadName == a_go.Name

\* contents somebody else gave the file
ForeignContents ==
    {EncodeToString(<<"p", "k", "g">>), EncodeToString(CommentPrefix \o UploadName)}
        \cup {EncodeToString(CommentPrefix \o s) : s \in Shas}

\* an identifier is a digest of the content: no content holds its own identifier
Realisable(file) ==
    file.exists => file.content # EncodeToString(CommentPrefix \o file.sha)

PlatformFiles ==
    {[exists |-> FALSE, content |-> << >>, sha |-> << >>]}
        \cup {f \in [exists : {TRUE}, content : ForeignContents, sha : Shas] : Realisable(f)}

\* the platform's precondition of a PUT on the path: a new file carries no
\* sha, a replaced file carries the sha of the version it replaces
PutAllowed(file, body) ==
    IF file.exists THEN body.sha = file.sha ELSE body.sha = << >>

\* the status of a PUT the platform does not carry out
PutFailureStatus(file, body, refuse) ==
    IF refuse THEN 403
    ELSE IF file.exists /\ body.sha # << >> THEN 409
    ELSE 422

UploadAt(pc) == upc = pc /\ exit = "running"

\* the descriptor of the file reaches the run: the scanner decoded it from a
\* listing, or UpdateFilesAndCreateRemaining made it with an empty SHA
Describe ==
    /\ UploadAt("describe")
    /\ held' = IF platformFile.exists
               THEN [Name |-> UploadName, SHA |-> platformFile.sha]
               ELSE [Name |-> UploadName, SHA |-> << >>]
    /\ upc' = "upload"
    /\ UNCHANGED << platformFile, ureq, usignal, ustatus, writes >>
    /\ UNCHANGED << walkAndMainVars, counterVars, configVars >>

\* the owner of the repository changes the file while the run holds its descriptor
ForeignWrite ==
    /\ UploadAt("upload")
    /\ writes < MaxWrites
    /\ \E c \in ForeignContents, s \in Shas \ {platformFile.sha} :
          /\ platformFile' = [exists |-> TRUE, content |-> c, sha |-> s]
          /\ Realisable(platformFile')
          /\ c # platformFile.content
    /\ writes' = writes + 1
    /\ UNCHANGED << held, upc, ureq, usignal, ustatus >>
    /\ UNCHANGED << walkAndMainVars, counterVars, configVars >>

\* UploadFile(url, client, v.Name, v.SHA, errorChan, done): the body, the PUT
\* and the one message it sends; refuse is the platform declining the request
\* (token, rate limit), fresh the identifier of the version written
UploadFile(outcome, refuse, fresh) ==
    /\ UploadAt("upload")
    /\ writes < MaxWrites
    /\ LET body == UploadBody(held.Name, held.SHA)
           accepted == outcome = "ok" /\ ~refuse /\ PutAllowed(platformFile, body)
       IN /\ ureq' = body
          /\ IF accepted
             THEN /\ platformFile' = [exists |-> TRUE, content |-> body.content, sha |-> fresh]
                  /\ writes' = writes + 1
                  /\ ustatus' = IF platformFile.exists THEN 200 ELSE 201
             ELSE /\ UNCHANGED << platformFile, writes >>
                  /\ ustatus' = IF outcome = "ok"
                                THEN PutFailureStatus(platformFile, body, refuse)
                                ELSE 0
          /\ usignal' = IF outcome = "ok" THEN "done" ELSE "error"
    /\ upc' = "describe"
    /\ UNCHANGED held
    /\ UNCHANGED << walkAndMainVars, counterVars, configVars >>

\* a run about to upload one file of the repository, in any state of the file
UploadInit ==
    /\ treeId = 1
    /\ numberOfContributionsToMake = 0
    /\ Start
    /\ events = << >>
    /\ now = 0
    /\ repoAnswers = [r \in Repos |-> RepoFound]
    /\ CounterStart
    /\ ConfigRead(0)
    /\ platformFile \in PlatformFiles
    /\ held = [Name |-> << >>, SHA |-> << >>]
    /\ upc = "describe"
    /\ ureq = [message |-> << >>, content |-> << >>, sha |-> << >>]
    /\ usignal = "none"
    /\ ustatus = 0
    /\ writes = 0

UploadNext ==
    \/ Describe
    \/ ForeignWrite
    \/ \E o \in UploadOutcomes, refuse \in BOOLEAN, fresh \in Shas \ {platformFile.sha} :
          UploadFile(o, refuse, fresh)

UploadSpec == UploadInit /\ [][UploadNext]_vars

-----------------------------------------------------------------------------
(* Properties *)

Decided == decision # "none"
Count == contributionResult.NumberContributions
ConfiguredMin == Atoi(minEnv.value).n

\* a send of the scanner that cannot complete: the channel's buffer is full
ScannerBlocked ==
    /\ exit = "running" /\ spc = "run" /\ Len(stack) > 0
    /\ \/ Top.pc \in {"resend", "sendTerm", "termErr"} /\ terminateGetRepo >= TerminateCap
       \/ Top.pc = "sendErr" /\ ~errorClosed /\ getRepoContentsErrorChan >= ErrorCap
       \/ /\ \/ Top.pc = "sendOut"
             \/ Top.pc = "loop2" /\ Top.idx > Len(Tree[Top.url]) /\ Top.url = RootURL
          /\ ~outputClosed
          /\ Len(getRepoOutput) >= OutputCap

\* C1: after an error-free count c and a configured MIN_CONTRIBUTIONS m, c >= m
\* means no upload call is issued in the run and c < m means the mutating path
C1_MinimumDecides ==
    (Decided /\ minEnv.present) =>
        /\ Count >= ConfiguredMin => (decision = "skip" /\ uploaded = << >>)
        /\ Count < ConfiguredMin => decision = "mutate"

\* C2: with MIN_CONTRIBUTIONS absent every error-free count takes the mutating
\* path: no cancellation is ever sent to the scanner, main never reaches the
\* no-mutation select, and a run that main completes took a scanner result and
\* called UploadFile for every descriptor
C2_AbsentAlwaysMutates ==
    (Decided /\ ~minEnv.present) =>
        /\ decision = "mutate"
        /\ cancelAt = -1
        /\ cpc \notin {"noMutSelect", "cancelSend"}
        /\ exit = "ok" => (took = "result" /\ Len(uploaded) = numberOfContributionsToMake)

C2_Witness ==
    /\ ~minEnv.present
    /\ Count = 50
    /\ exit = "ok"
    /\ numberOfContributionsToMake > 0
    /\ Len(uploaded) = numberOfContributionsToMake

\* C3: a counter result that carries an error ends the run with a non-zero
\* status at once: no decision is taken and UploadFile is never called
C3_CounterErrorAborts ==
    contributionResult.Err =>
        /\ exit = "fatal"
        /\ decision = "none"
        /\ uploaded = << >>

C3_Witness ==
    /\ contributionResult.Err
    /\ exit = "fatal"
    /\ spc = "run"
    /\ Len(stack) > 1

\* the cancellation send of main waits on a full buffer that the scanner,
\* itself waiting on a send, will never empty
MainHangs ==
    /\ exit = "running" /\ cpc = "cancelSend"
    /\ ~terminateClosed /\ terminateGetRepo >= TerminateCap
    /\ ScannerBlocked

\* C4: when no mutation is needed the run ends with success in every
\* interleaving: the process never panics (no send on the closed
\* terminateGetRepo, no scanner failure surfaced) and the cancellation send
\* never hangs
C4_NoMutationEndsWell ==
    decision = "skip" => (exit \in {"running", "ok"} /\ ~MainHangs)

\* C5: on the mutating path, once the scanner has reported a failure main
\* never calls UploadFile and never completes the run with success
C5_ScanFailureAborts ==
    (decision = "mutate" /\ errorsSent > 0) => (uploaded = << >> /\ exit # "ok")

\* C6: on the mutating path the process never panics: the scanner never sends
\* on a channel main has closed
C6_DuplicateSendHarmless ==
    decision = "mutate" => exit # "panic"

\* C7: no send of the scanner ever waits for a receiver
C7_ScannerNeverBlocks ==
    ~ScannerBlocked

\* C8: after main has sent the cancellation the scanner starts at most one
\* more listing request and is never stuck: every pending call returns
C8_CancellationUnwinds ==
    cancelAt >= 0 =>
        /\ Len(requests) <= cancelAt + 1
        /\ ~ScannerBlocked

\* C9: every result sent on getRepoOutput holds at most
\* numberOfContributionsToMake descriptors
C9_AtMostN ==
    \A i \in 1..Len(sent) : Len(sent[i]) <= numberOfContributionsToMake

C9_Witness ==
    /\ numberOfContributionsToMake > 0
    /\ treeId = 2
    /\ \E i \in 1..Len(sent) : Len(sent[i]) = numberOfContributionsToMake

\* C10: in one walk no listing URL is requested twice
C10_NoRevisit ==
    \A i, j \in 1..Len(requests) : i # j => requests[i] # requests[j]

-----------------------------------------------------------------------------
(* The walk's result against the whole tree *)

\* no directory is its own descendant: the walk from url never returns to a
\* listing it is inside of
RECURSIVE AcyclicFrom(_, _, _)
AcyclicFrom(t, url, seen) ==
    /\ url \notin seen
    /\ \A i \in 1..Len(t[url]) :
          t[url][i].Type = "dir" => AcyclicFrom(t, t[url][i].Self, seen \cup {url})

\* the paths of the allow-listed files in the listing url and below it
RECURSIVE ModifiableUnder(_, _, _)
ModifiableUnder(t, url, seen) ==
    IF url \in seen THEN {}
    ELSE {t[url][i].Path : i \in {j \in 1..Len(t[url]) :
                                    /\ t[url][j].Type = "file"
                                    /\ fileCanBeModified(t[url][j].Name)}}
         \cup UNION {ModifiableUnder(t, t[url][i].Self, seen \cup {url}) :
                       i \in {j \in 1..Len(t[url]) : t[url][j].Type = "dir"}}

Min(a, b) == IF a < b THEN a ELSE b

WalkFailed == errorsSent > 0 \/ \E i \in 1..Len(stack) : stack[i].pc \in {"sendErr", "termErr"}

\* C11: on an acyclic tree, when no request failed and main did not cancel,
\* the result main receives (the first one sent) holds exactly
\* min(N, M) descriptors, M the number of allow-listed files of the whole tree
C11_WalkFindsMinNM ==
    (/\ took = "result"
     /\ AcyclicFrom(Tree, RootURL, {})
     /\ ~WalkFailed
     /\ cancelAt = -1)
    => Len(sent[1]) = Min(numberOfContributionsToMake,
                          Cardinality(ModifiableUnder(Tree, RootURL, {})))

-----------------------------------------------------------------------------
(* The counter's result against the event list *)

CounterReturned == kpc = "done"

\* the events request succeeded and no repository an event names has a
\* failing probe
FailureFree ==
    /\ fetchOutcome = "ok"
    /\ \A i \in 1..Len(events) : repoAnswers[events[i].Repo.Name].fail = "none"

OccurredToday(event) == LocalDate(event.CreatedAt) = LocalDate(now)

CurrentlyExists(name) ==
    repoAnswers[name].fail = "none" /\ repoAnswers[name].message # "Not Found"

\* the reference: every event of the list is looked at
RECURSIVE FullScanCount(_)
FullScanCount(evs) ==
    IF evs = << >> THEN 0
    ELSE (IF OccurredToday(Head(evs)) /\ CurrentlyExists(Head(evs).Repo.Name)
          THEN Contribution(Head(evs)) ELSE 0)
         + FullScanCount(Tail(evs))

NoFutureEvent ==
    \A i \in 1..Len(events) : LocalDate(events[i].CreatedAt) <= LocalDate(now)

Processed == {i \in 1..Len(events) : i < eventIdx \/ (i = eventIdx /\ counterReturn.err)}

\* C13: in one counting run every repository name is probed at most once, and
\* exactly once when a same-day event the loop went through names it and the
\* platform answers with a body (no message, "Not Found" or another message)
C13_OneProbePerRepository ==
    \A r \in Repos :
        /\ probeCalls[r] <= 1
        /\ ((\E i \in Processed : events[i].Repo.Name = r)
             /\ repoAnswers[r].fail = "none") => probeCalls[r] = 1

\* the primary branch of the platform's convention
PrimaryBranch == "main"

ClaimedContribution(event) ==
    IF event.Type = "CreateEvent"
    THEN IF event.Payload.RefType = "repository" \/ event.Payload.Ref = PrimaryBranch
         THEN 1 ELSE 0
    ELSE IF event.Type = "PullRequestEvent" THEN 1
    ELSE IF event.Type = "PushEvent"
    THEN Cardinality({i \in 1..Len(event.Payload.Commits) :
                        event.Payload.Commits[i].Message # "Update README.md"})
    ELSE 0

RECURSIVE ClaimedCount(_)
ClaimedCount(evs) ==
    IF evs = << >> THEN 0
    ELSE (IF OccurredToday(Head(evs)) /\ CurrentlyExists(Head(evs).Repo.Name)
          THEN ClaimedContribution(Head(evs)) ELSE 0)
         + ClaimedCount(Tail(evs))

\* C14: on a failure-free run the returned count is the sum over the same-day
\* events of existing repositories of 1 for a create event of ref type
\* "repository" or of the primary branch, 1 for a pull request, and for a push
\* the number of commits whose message is not "Update README.md"
C14_CountRules ==
    (CounterReturned /\ FailureFree /\ NoFutureEvent)
    => counterReturn.n = ClaimedCount(events)

\* C15: for [push today with 2 commits to the existing r, create event today
\* with ref "main" on r] and minimum 3 the counter returns 3 and the
\* comparison of main chooses mutation
C15_ScenarioCountsThree ==
    (/\ CounterReturned
     /\ FailureFree
     /\ Len(events) = 2
     /\ OccurredToday(events[1]) /\ OccurredToday(events[2])
     /\ events[1].Type = "PushEvent" /\ events[1].Repo.Name = "r"
     /\ [i \in 1..2 |-> [Message |-> <<"c1", "c2">>[i]]] = events[1].Payload.Commits
     /\ events[2].Type = "CreateEvent" /\ events[2].Repo.Name = "r"
     /\ events[2].Payload.Ref = "main"
     /\ repoAnswers["r"] = RepoFound)
    => /\ counterReturn.n = 3
       /\ MakeContributions(counterReturn.n, 3)

\* what went wrong in the requests the run made
FetchFailed == fetchOutcome \in {"doErr", "notOK", "decodeErr"}
ProbeFailed ==
    \E r \in Repos : probeCalls[r] > 0 /\ repoAnswers[r].fail \in {"doErr", "decodeErr"}
ProbeNotSuccess ==
    \E r \in Repos : /\ probeCalls[r] > 0
                     /\ repoAnswers[r].fail = "none"
                     /\ repoAnswers[r].status \notin 200..299

WellFormedReturn ==
    \/ counterReturn.err /\ counterReturn.n = -1
    \/ ~counterReturn.err /\ counterReturn.n >= 0

\* C16 as stated: the counter returns (count >= 0, no error) or (-1, error),
\* and a transport failure, a non-success status or an undecodable body, on
\* the events request or on any existence probe, yields (-1, error)
C16_AnyFailureYieldsError_WithProbeStatus ==
    CounterReturned =>
        /\ WellFormedReturn
        /\ (FetchFailed \/ ProbeFailed \/ ProbeNotSuccess) => counterReturn.err

\* C16: the counter returns (count >= 0, no error) or (-1, error), never the
\* count it had reached; a transport failure or an undecodable body, on the
\* events request or on any existence probe, and a status other than 200 on
\* the events request, yield (-1, error); the status of a probe is not looked at
C16_FailureYieldsError ==
    CounterReturned =>
        /\ WellFormedReturn
        /\ (FetchFailed \/ ProbeFailed) => counterReturn.err
        /\ ~counterReturn.err => counterReturn.n = numberOfContributionsToday

\* a probe failed after the loop had counted something: the count is dropped
C16_Witness ==
    /\ CounterReturned
    /\ ProbeFailed
    /\ numberOfContributionsToday > 0
    /\ counterReturn = [n |-> -1, err |-> TRUE]

-----------------------------------------------------------------------------
(* The mutator's batch *)

\* main took a result and called UpdateFilesAndCreateRemaining
MutatorCalled ==
    /\ decision = "mutate"
    /\ took = "result"
    /\ cpc \in {"synthesize", "upload", "drain", "return"}

Received == sent[1]
Required == numberOfContributionsToMake

\* C17: given k received descriptors, the mutator appends create descriptors
\* (empty SHA) until there are N, N - k of them and none when k = N, and then
\* calls UploadFile once for each of the N descriptors, in their order
C17_CreatesDeficitUploadsAll ==
    MutatorCalled =>
        /\ Len(Received) <= Len(contents) /\ Len(contents) <= Required
        /\ SubSeq(contents, 1, Len(Received)) = Received
        /\ \A i \in 1..Len(contents) : (i > Len(Received)) <=> (contents[i].SHA = "")
        /\ cpc # "synthesize" => Len(contents) = Required
        /\ cpc = "synthesize" => uploaded = << >>
        /\ Len(uploaded) <= Len(contents)
        /\ uploaded = SubSeq(contents, 1, Len(uploaded))
        /\ cpc \in {"drain", "return"} => uploaded = contents

C17_Witness ==
    /\ MutatorCalled
    /\ exit = "ok"
    /\ Len(Received) > 0
    /\ Len(Received) < Required
    /\ Len(uploaded) = Required

\* C18: in one batch a generated name differs from the path of every
\* descriptor before it in contents, received or generated, also when the
\* clock returned the same instant again
C18_GeneratedNamesDistinct ==
    MutatorCalled =>
        \A i, j \in 1..Len(contents) :
            (i < j /\ j > Len(Received)) => contents[i].Path # contents[j].Path

\* the clock repeated an instant whose name was taken, and two names were
\* generated
C18_Witness ==
    /\ MutatorCalled
    /\ nameChange
    /\ Len(contents) >= Len(Received) + 2

\* C19: after an upload has failed every descriptor is still attempted once
\* and the run ends with success
C19_FailedUploadKeepsRunGoing ==
    (MutatorCalled /\ updateErrorChan > 0 /\ exit # "running")
    => (exit = "ok" /\ uploaded = contents /\ Len(uploaded) = Required)

\* C20: every UploadFile call leaves exactly one signal, no signal channel
\* ever holds more than its capacity cap(contents) so no send waits, each
\* reception of the drain loop finds a signal, and main goes past the loop
\* only after N receptions, one per descriptor
C20_OneSignalPerUpload ==
    MutatorCalled =>
        /\ Len(uploaded) = updateErrorChan + updateDonechan + numMessagesReceived
        /\ updateErrorChan <= Required /\ updateDonechan <= Required
        /\ cpc = "drain" => /\ updateErrorChan + updateDonechan > 0
                            /\ numMessagesReceived < Required
        /\ cpc = "return" => /\ numMessagesReceived = Required
                             /\ Len(uploaded) = Required
                             /\ updateErrorChan + updateDonechan = 0

C20_Witness ==
    /\ MutatorCalled
    /\ exit = "ok"
    /\ numMessagesReceived >= 2

-----------------------------------------------------------------------------
(* The walk's responses, requests and messages *)

WalkReturned == spc \in {"defer", "done"}

\* C22: when the walk has returned, every listing response it opened has been
\* closed, on whichever path each call returned
C22_NoResponseLeftOpen ==
    WalkReturned => openBodies = 0

\* C23: at every moment of the walk at most one listing response is open
C23_AtMostOneOpen ==
    openBodies <= 1

\* some call of the walk has found its result full
TargetReached ==
    \/ \E i \in 1..Len(stack) :
          /\ stack[i].pc \in {"sendOut", "sendTerm"}
          /\ Len(stack[i].result) = numberOfContributionsToMake
    \/ \E i \in 1..Len(sent) : Len(sent[i]) = numberOfContributionsToMake

\* C25: once a call of an uncancelled walk has reached the target count, no
\* step of the walk issues a listing request
C25_NoRequestAfterTarget ==
    [][(TargetReached /\ cancelAt' = -1) => requests' = requests]_vars

\* the target was reached in d1 and the sibling d2 was never requested
C25_Witness ==
    /\ treeId = 4
    /\ numberOfContributionsToMake = 1
    /\ cancelAt = -1
    /\ WalkReturned
    /\ requests = <<"root", "d1">>
    /\ Len(sent) > 0

\* C26: a walk sends at most one error, and once it has sent it no step of the
\* walk issues a listing request
C26_OneErrorThenNoRequest ==
    [][/\ errorsSent' <= 1
       /\ errorsSent >= 1 => requests' = requests]_vars

\* the request for d1 failed and the sibling d2 was never requested
C26_Witness ==
    /\ treeId = 4
    /\ errorsSent = 1
    /\ WalkReturned
    /\ requests = <<"root", "d1">>

\* C30: every descriptor of every result sent is of type "file" and its name
\* ends in .js, .java, .go, .c, .cpp or .txt
C30_OnlyAllowListedFiles ==
    \A i \in 1..Len(sent) : \A j \in 1..Len(sent[i]) :
        /\ sent[i][j].Type = "file"
        /\ \E suffix \in { <<".", "j", "s">>, <<".", "j", "a", "v", "a">>,
                           <<".", "g", "o">>, <<".", "c">>, <<".", "c", "p", "p">>,
                           <<".", "t", "x", "t">> } :
              HasSuffix(sent[i][j].Name, suffix)

\* a listing with a file outside the list between two accepted ones
C30_Witness ==
    /\ treeId = 2
    /\ Len(sent) > 0
    /\ sent[1] = <<a_go, b_txt>>

-----------------------------------------------------------------------------
(* main and the scanner's channels *)

\* C27: main sends the cancellation at most once, only after the comparison
\* chose the path without contributions and its select found neither an error
\* nor a result; on the mutating path it never sends it; the select of the
\* path without contributions takes exactly one of its three branches
C27_CancellationDiscipline ==
    [][/\ (cancelAt' # -1) => (decision' = "skip" /\ took' = "default")
       /\ (cancelAt # -1) => (cancelAt' = cancelAt /\ cpc' # "cancelSend")
       /\ (cpc = "noMutSelect" /\ took' = "default")
            => (Len(getRepoOutput) = 0 /\ getRepoContentsErrorChan = 0)
       /\ (decision' = "mutate") => (took' # "default" /\ cpc' # "cancelSend")
       /\ (decision' = "skip" /\ cpc' \in {"cancelSend", "return"})
            => took' \in {"error", "result", "default"}
       /\ (took' \in {"error", "result"}) => cancelAt' = -1]_vars

C27_Witness ==
    /\ decision = "skip"
    /\ cancelAt # -1
    /\ exit = "ok"

\* C28: on a finite acyclic tree, when main waits in the select of the mutating
\* path it eventually takes a result or an error; and a walk main has not
\* cancelled has sent a result or an error when GetRepoContents has returned
C28_WaitForScannerEnds ==
    /\ []((WalkReturned /\ cancelAt = -1 /\ AcyclicFrom(Tree, RootURL, {}))
            => Len(sent) + errorsSent >= 1)
    /\ ((cpc = "mutSelect" /\ AcyclicFrom(Tree, RootURL, {}))
          ~> took \in {"result", "error"})

\* main took a result that has fewer than N descriptors
C28_Witness ==
    /\ decision = "mutate"
    /\ took = "result"
    /\ AcyclicFrom(Tree, RootURL, {})
    /\ Len(sent[1]) < numberOfContributionsToMake

-----------------------------------------------------------------------------
(* C24 *)

NumberRead == gpc # "lookup" /\ exit # "fatal"

\* the integers a text is the decimal writing of
Denotes(text, m) == text = IntString(m) \/ (m >= 0 /\ text = <<"+">> \o IntString(m))

\* C24: once NUMBER_CONTRIBUTIONS has been read, the number of contributions to
\* make is an integer of 3..7 when the variable is absent and the integer its
\* text writes when it is present
C24_NumberOfContributions ==
    NumberRead =>
        /\ ~nContsEnv.present => numberOfContributionsToMake \in 3..7
        /\ nContsEnv.present =>
               \E m \in (0 - MaxConfigured - 1)..(MaxConfigured + 1) :
                   /\ Denotes(nContsEnv.value, m)
                   /\ numberOfContributionsToMake = m

\* the default reaches its upper end and the scanner is started with it
C24_Witness ==
    /\ ~nContsEnv.present
    /\ gpc = "started"
    /\ numberOfContributionsToMake = 7

-----------------------------------------------------------------------------
(* C21, C29 *)

\* a step of UploadFile in which the platform wrote the file
ToolWrite == upc = "upload" /\ upc' = "describe" /\ writes' = writes + 1

C29_DoneOnlyWhenAccepted ==
    usignal = "done" => ustatus \in {200, 201}

-----------------------------------------------------------------------------
(* C31 *)

\* C31: the descriptors UploadFile is called for in one run have pairwise
\* different paths, whatever tree the platform serves and however many
\* descriptors the mutator has to create
C31_NoPathUploadedTwice ==
    \A i, j \in 1..Len(uploaded) : i < j => uploaded[i].Path # uploaded[j].Path

-----------------------------------------------------------------------------
(* C32 *)

\* C32: main decides only after it has received an error-free counter result,
\* takes a message of the scanner only after it has decided, and UploadFile is
\* called only on the mutating path after a scanner result was taken
C32_CounterDecisionScannerUploads ==
    [][/\ decision' # decision =>
              /\ cpc = "decide"
              /\ ~contributionResult.Err
              /\ took = "nothing"
              /\ uploaded = << >>
       /\ took' # took => (decision # "none" /\ uploaded = << >>)
       /\ uploaded' # uploaded =>
              /\ decision = "mutate"
              /\ took = "result"
              /\ cpc # "receiveContribution"]_vars

\* an upload was issued after the counter result, the decision and a scanner result
C32_Witness ==
    /\ Len(uploaded) > 0
    /\ decision = "mutate"
    /\ took = "result"
    /\ ~contributionResult.Err

-----------------------------------------------------------------------------
(* C33 *)

\* a call that received a terminate message cannot put its message back: the
\* one-slot buffer is full
ResendBlocked ==
    /\ exit = "running" /\ spc = "run" /\ Len(stack) > 0
    /\ Top.pc = "resend"
    /\ terminateGetRepo >= TerminateCap

\* C33: a call that received a terminate message always puts one back without
\* waiting, and once a walk in which a message was received has returned at the
\* root exactly one message is left on the terminate channel
C33_ResendLeavesOneMessage ==
    /\ ~ResendBlocked
    /\ (observed > 0 /\ WalkReturned) => terminateGetRepo = 1

====
